---- MODULE Spec2Model ----
(***************************************************************************)
(* Workout tracker (src/app.py): the logs table, the weekly, history,      *)
(* dashboard and chart handlers, the training calendar, the progression    *)
(* rule and the per-session chart series.                                  *)
(*                                                                         *)
(* Representation of values                                                *)
(*  - A weight is an integer count of 0.05 kg (20.0 kg = 400, 2.5 kg = 50).*)
(*    Submitted weights lie on the 0.25 kg grid (multiples of 5), which    *)
(*    float() and the REAL column represent exactly; results of            *)
(*    round(x, 1) need the finer 0.05 kg unit.  Inf and NaN are the two    *)
(*    non-finite floats that float() also produces.                        *)
(*  - A date object is its proleptic Gregorian ordinal (date.toordinal()); *)
(*    the TEXT of the date column is <<year, month, day>>, the three       *)
(*    zero-padded fields of isoformat(), compared field by field as SQL    *)
(*    compares the text.                                                   *)
(*  - None, and an empty fetch, is <<>>.                                   *)
(***************************************************************************)
EXTENDS Integers, Sequences, FiniteSets, TLC

VARIABLES logs,    \* the rows of the logs table, in insertion (id) order
          today,   \* the wall clock's date.today(), as an ordinal
          resp     \* the response of the request being served, or Idle

vars == <<logs, today, resp>>

(***************************************************************************)
(* Bounds of the model.                                                    *)
(***************************************************************************)
MaxLogs == 2          \* rows the table may hold in Spec
MaxDay == 41          \* days the clock may advance past StartDate in Spec
MaxGrid == 80         \* SpecProg: last weights 0.25 kg .. MaxGrid * 0.25 kg
MaxReps == 11         \* SpecProg: last reps 1 .. MaxReps
MaxSeriesLen == 3     \* SpecSeries: rows of the charted history

StartDate == <<2023, 12, 28>>
DaySteps == {41}
Years == {2023, 2024}

(***************************************************************************)
(* Floats.                                                                 *)
(***************************************************************************)
Inf == 1000000000
NaN == -1000000000

\* w > 0 on floats: false for NaN, true for inf
FloatGt(w, z) == w # NaN /\ w > z

FloatAdd(a, b) == IF a = Inf \/ b = Inf THEN Inf ELSE a + b

FloatMul(a, b) == IF a = Inf \/ b = Inf THEN Inf ELSE a * b

FloatMax(a, b) == IF a >= b THEN a ELSE b

\* Mutant of RoundHalfEven: math.ceil in place of round
RoundUp(n, d) == IF n % d = 0 THEN n \div d ELSE (n \div d) + 1

\* round half to even of n / d, d > 0, n >= 0: Python 3 round()
RoundHalfEven(n, d) ==
    LET q == n \div d
        r == n % d
    IN  IF 2 * r > d \/ (2 * r = d /\ q % 2 = 1) THEN q + 1 ELSE q

(***************************************************************************)
(* datetime: calendar arithmetic behind strptime, isoformat and date       *)
(* subtraction.                                                            *)
(***************************************************************************)
IsLeap(y) == y % 4 = 0 /\ (y % 100 # 0 \/ y % 400 = 0)

DaysInMonth(y, m) ==
    IF m = 2 THEN (IF IsLeap(y) THEN 29 ELSE 28)
    ELSE IF m \in {4, 6, 9, 11} THEN 30 ELSE 31

RECURSIVE DaysBeforeMonth(_, _)
DaysBeforeMonth(y, m) ==
    IF m = 1 THEN 0 ELSE DaysBeforeMonth(y, m - 1) + DaysInMonth(y, m - 1)

DaysBeforeYear(y) ==
    (y - 1) * 365 + ((y - 1) \div 4) - ((y - 1) \div 100) + ((y - 1) \div 400)

\* datetime.datetime.strptime(text, "%Y-%m-%d").date()
strptime(text) == DaysBeforeYear(text[1]) + DaysBeforeMonth(text[1], text[2]) + text[3]

\* date.isoformat(): the year, then the month, that hold the ordinal
isoformat(ord) ==
    LET y == CHOOSE c \in Years : DaysBeforeYear(c) < ord /\ ord <= DaysBeforeYear(c + 1)
        n == ord - DaysBeforeYear(y)
        m == CHOOSE c \in 1..12 :
                DaysBeforeMonth(y, c) < n /\ n <= DaysBeforeMonth(y, c) + DaysInMonth(y, c)
    IN  <<y, m, n - DaysBeforeMonth(y, m)>>

\* SQL comparison of two date texts (TEXT column, fixed-width fields)
TextLess(a, b) ==
    \/ a[1] < b[1]
    \/ a[1] = b[1] /\ a[2] < b[2]
    \/ a[1] = b[1] /\ a[2] = b[2] /\ a[3] < b[3]

(***************************************************************************)
(* The workout plan, reduced to two days of one exercise each.             *)
(***************************************************************************)
WORKOUT_PLAN ==
    ("Push" :> <<"Weighted Dips">>) @@
    ("Pull" :> <<"Face Pulls">>)

RequestDays == DOMAIN WORKOUT_PLAN \cup {"Cardio"}

Range(f) == {f[i] : i \in DOMAIN f}

\* list_all_exercises(): the plan's exercises, first occurrence kept
RECURSIVE Dedupe(_)
Dedupe(s) ==
    IF s = <<>> THEN <<>>
    ELSE LET front == Dedupe(SubSeq(s, 1, Len(s) - 1))
             x == s[Len(s)]
         IN  IF x \in Range(front) THEN front ELSE Append(front, x)

list_all_exercises == Dedupe(WORKOUT_PLAN["Push"] \o WORKOUT_PLAN["Pull"])

RequestExercises == Range(list_all_exercises) \cup {"Burpees"}

(***************************************************************************)
(* Log Store queries.                                                      *)
(***************************************************************************)
RowsOf(exercise) == {i \in DOMAIN logs : logs[i].exercise = exercise}

\* Mutant of MinDate: SELECT MAX(date)
MaxDate ==
    IF logs = <<>> THEN <<>>
    ELSE CHOOSE t \in {logs[i].date : i \in DOMAIN logs} :
            \A i \in DOMAIN logs : ~TextLess(t, logs[i].date)

\* SELECT MIN(date) FROM logs: NULL on the empty table
MinDate ==
    IF logs = <<>> THEN <<>>
    ELSE CHOOSE t \in {logs[i].date : i \in DOMAIN logs} :
            \A i \in DOMAIN logs : ~TextLess(logs[i].date, t)

get_training_week ==
    LET first_date == MinDate
    IN  IF first_date # <<>>
        THEN ((today - strptime(first_date)) \div 7) + 1
        ELSE 1

\* Mutant of OrderedBefore: ORDER BY date DESC alone
OrderedBeforeByDate(i, j) == TextLess(logs[j].date, logs[i].date)

\* row i comes before row j under ORDER BY date DESC, set_number DESC
OrderedBefore(i, j) ==
    \/ TextLess(logs[j].date, logs[i].date)
    \/ logs[j].date = logs[i].date /\ logs[j].set_number < logs[i].set_number

\* Mutant of last_set_for_exercise: the query without WHERE exercise = ...
last_set_of_any_exercise(exercise) ==
    IF logs = <<>> THEN {<<>>}
    ELSE {<<logs[i].reps, logs[i].weight>> :
            i \in {k \in DOMAIN logs : \A j \in DOMAIN logs : ~OrderedBefore(j, k)}}

\* The rows last_set_for_exercise may return: LIMIT 1 of the descending
\* order; among rows equal in (date, set_number) the database picks.
last_set_for_exercise(exercise) ==
    IF RowsOf(exercise) = {} THEN {<<>>}
    ELSE {<<logs[i].reps, logs[i].weight>> :
            i \in {k \in RowsOf(exercise) :
                      \A j \in RowsOf(exercise) : ~OrderedBefore(j, k)}}

\* SELECT date, set_number, reps, weight ... ORDER BY date ASC, set_number ASC:
\* every order of the exercise's rows the query may return (rows equal in
\* (date, set_number) come in either order)
fetch_exercise_history(exercise) ==
    LET I == RowsOf(exercise)
        n == Cardinality(I)
        Row(i) == <<logs[i].date, logs[i].set_number, logs[i].reps, logs[i].weight>>
    IN  {[k \in 1..n |-> Row(p[k])] :
            p \in {q \in [1..n -> I] :
                     /\ \A a, b \in 1..n : a # b => q[a] # q[b]
                     /\ \A a \in 1..(n - 1) : ~OrderedBefore(q[a], q[a + 1])}}

(***************************************************************************)
(* Progression rule.                                                       *)
(***************************************************************************)
Recommendation(w, r) == [raised |-> "", weight |-> w, reps |-> r]

OverflowError == [raised |-> "OverflowError", weight |-> 0, reps |-> 0]

\* Mutant of Round1: the sum returned unrounded
Round1Skipped(x) == x

\* round(x, 1): to the nearest 0.1 kg, half to even; inf stays inf
Round1(x) == IF x = Inf THEN Inf ELSE RoundHalfEven(x, 2) * 2

\* get_next_progression(exercise), given the week number and the row that
\* last_set_for_exercise(exercise) returned
get_next_progression(week_number, last) ==
    IF last = <<>> THEN Recommendation(400, 6)
    ELSE LET last_reps == last[1]
             last_weight == last[2]
         IN  IF week_number % 6 = 0
             THEN IF last_weight = Inf
                  THEN OverflowError   \* round(inf) raises
                  ELSE LET deload_w == RoundHalfEven(9 * last_weight, 500) * 50
                       IN  Recommendation(IF deload_w < 50 THEN 50 ELSE deload_w, 6)
             ELSE IF last_reps >= 10
                  THEN Recommendation(Round1(FloatAdd(last_weight, 50)), 6)
                  ELSE Recommendation(last_weight, last_reps + 1)

(***************************************************************************)
(* Chart series.                                                           *)
(***************************************************************************)
\* Mutant of group_by_date: by_date[d] = [(s, r, w)], each row replacing the
\* date's earlier ones
group_by_date_overwriting(rows) ==
    [d \in {rows[i][1] : i \in DOMAIN rows} |->
        LET last == CHOOSE i \in DOMAIN rows :
                        rows[i][1] = d /\ \A j \in DOMAIN rows : rows[j][1] = d => j <= i
        IN  <<<<rows[last][2], rows[last][3], rows[last][4]>>>>]

\* group_by_date(rows): date -> the (set, reps, weight) of its rows, in order
group_by_date(rows) ==
    [d \in {rows[i][1] : i \in DOMAIN rows} |->
        LET keep(row) == row[1] = d
            mine == SelectSeq(rows, keep)
        IN  [k \in DOMAIN mine |-> <<mine[k][2], mine[k][3], mine[k][4]>>]]

\* sorted(keys): ascending in text order
RECURSIVE sorted(_)
sorted(S) ==
    IF S = {} THEN <<>>
    ELSE LET least == CHOOSE t \in S : \A u \in S : ~TextLess(u, t)
         IN  <<least>> \o sorted(S \ {least})

\* epley_1rm(weight, reps) = weight * (1 + reps / 30), as a count of 1/30 units
epley_1rm(weight, reps) == FloatMul(weight, 30 + reps)

\* max(...) over a non-empty sequence of floats
RECURSIVE MaxSeq(_)
MaxSeq(v) ==
    IF Len(v) = 1 THEN v[1]
    ELSE FloatMax(MaxSeq(SubSeq(v, 1, Len(v) - 1)), v[Len(v)])

\* sum(...) over a sequence of floats
RECURSIVE SumSeq(_)
SumSeq(v) ==
    IF v = <<>> THEN 0
    ELSE FloatAdd(SumSeq(SubSeq(v, 1, Len(v) - 1)), v[Len(v)])

ChartKinds == {"top_weight", "volume", "e1rm"}

\* the value appended to y for one date's sets (set, reps, weight)
Metric(kind, sets) ==
    IF kind = "top_weight" THEN MaxSeq([k \in DOMAIN sets |-> sets[k][3]])
    ELSE IF kind = "volume"
         THEN SumSeq([k \in DOMAIN sets |-> FloatMul(sets[k][3], sets[k][2])])
         ELSE MaxSeq([k \in DOMAIN sets |-> epley_1rm(sets[k][3], sets[k][2])])

Figure(title, x, y) == [status |-> 200, title |-> title, x |-> x, y |-> y]

\* chart(kind) for ?exercise=<exercise>, given the rows fetched
chart(kind, exercise, rows) ==
    IF exercise = "" THEN [status |-> 404, title |-> "", x |-> <<>>, y |-> <<>>]
    ELSE IF rows = <<>> THEN Figure("No data", <<>>, <<>>)
    ELSE LET by_date == group_by_date(rows)
             dates_sorted == sorted(DOMAIN by_date)
         IN  IF kind \notin ChartKinds THEN Figure("Unknown chart", <<>>, <<>>)
             ELSE Figure(kind,
                         [k \in DOMAIN dates_sorted |-> strptime(dates_sorted[k])],
                         [k \in DOMAIN dates_sorted |->
                             Metric(kind, by_date[dates_sorted[k]])])

(***************************************************************************)
(* Form fields of POST /weekly/<day>.                                      *)
(***************************************************************************)
ValueError == [ok |-> FALSE, val |-> 0]

Parsed(v) == [ok |-> TRUE, val |-> v]

strip(s) == IF s = "  " THEN "" ELSE s

IntLiterals == ("9" :> 9) @@ ("10" :> 10) @@ ("0" :> 0) @@ ("-3" :> -3)

FloatLiterals ==
    ("9.75" :> 195) @@ ("20.25" :> 405) @@ ("0" :> 0) @@ ("-5" :> -100) @@
    ("inf" :> Inf) @@ ("nan" :> NaN)

\* int(text)
ParseInt(s) == IF s \in DOMAIN IntLiterals THEN Parsed(IntLiterals[s]) ELSE ValueError

\* float(text)
ParseFloat(s) ==
    IF s \in DOMAIN FloatLiterals THEN Parsed(FloatLiterals[s]) ELSE ValueError

Blank == <<"", "">>

\* <<reps field, weight field>> a client may send for one set
FieldPairs ==
    {<<"9", "9.75">>, <<"10", "inf">>,
     <<"abc", "20.25">>, <<"9", "0">>, <<"-3", "9.75">>, <<"  ", "9.75">>,
     <<"9", "nan">>}

\* the field pairs of the forms that fill two slots
PairedFields == {<<"9", "9.75">>, <<"10", "inf">>, <<"abc", "20.25">>}

\* the (exercise, set) slots of a day's form, in the handler's loop order
FormSlots(day) ==
    LET exs == WORKOUT_PLAN[day]
    IN  [k \in 1..(3 * Len(exs)) |-> <<exs[((k - 1) \div 3) + 1], ((k - 1) % 3) + 1>>]

\* the requests POST /weekly/<day> of the model: <<day, form>>, the form
\* with no, one or two filled slots; a day outside the plan has no fields
PostRequests ==
    {<<day, <<>>>> : day \in RequestDays \ DOMAIN WORKOUT_PLAN} \cup
    UNION {
        LET n == Len(FormSlots(day))
            Fill(a, pa, b, pb) ==
                [k \in 1..n |-> IF k = a THEN pa ELSE IF k = b THEN pb ELSE Blank]
        IN  {<<day, Fill(a, pa, a, pa)>> : a \in 1..n, pa \in FieldPairs \cup {Blank}}
            \cup
            {<<day, Fill(ab[1], pa, ab[2], pb)>> :
                ab \in {c \in (1..n) \X (1..n) : c[1] < c[2]},
                pa \in PairedFields, pb \in PairedFields}
        : day \in DOMAIN WORKOUT_PLAN}

\* The loop of the POST handler from slot k on: the rows appended (insertOk:
\* whether the store accepts the inserts of this request) and whether a store
\* call failed.
RECURSIVE PostLoop(_, _, _, _, _, _)
PostLoop(day, form, date, insertOk, k, acc) ==
    IF k > Len(form) THEN acc
    ELSE LET slot == FormSlots(day)[k]
             reps_val == strip(form[k][1])
             weight_val == strip(form[k][2])
             reps == ParseInt(reps_val)
             weight == ParseFloat(weight_val)
             valid == /\ reps_val # "" /\ weight_val # ""
                      /\ reps.ok /\ weight.ok
                      /\ reps.val > 0 /\ FloatGt(weight.val, 0)
             row == [date |-> date, day |-> day, exercise |-> slot[1],
                     set_number |-> slot[2], reps |-> reps.val, weight |-> weight.val]
             next == IF ~valid THEN acc
                     ELSE IF insertOk
                          THEN [acc EXCEPT !.rows = Append(@, row)]
                          ELSE [acc EXCEPT !.failed = TRUE]   \* except: pass
         IN  PostLoop(day, form, date, insertOk, k + 1, next)

(***************************************************************************)
(* Requests.  A handler runs when no response is in flight and leaves its  *)
(* response in resp; Deliver hands it to the client.                       *)
(***************************************************************************)
Idle == [op |-> "idle", status |-> 0]

StoreFailure(op) == [op |-> op, status |-> 500, error |-> "store", location |-> ""]

Redirect(op, location) == [op |-> op, status |-> 302, error |-> "", location |-> location]

Index ==
    /\ resp.op = "idle"
    /\ resp' = [op |-> "index", status |-> 200, plan |-> WORKOUT_PLAN]
    /\ UNCHANGED <<logs, today>>

\* db: "up", "down" (no store call succeeds) or "lost" (the store is lost
\* after the handler has read the training week)
WeeklyPost(day, form, db) ==
    /\ resp.op = "idle"
    /\ IF day \notin DOMAIN WORKOUT_PLAN
       THEN /\ resp' = Redirect("weekly_post", "index")
            /\ UNCHANGED logs
       ELSE IF db = "down"
       THEN /\ resp' = StoreFailure("weekly_post")   \* get_training_week() raises
            /\ UNCHANGED logs
       ELSE LET date == isoformat(today)
                done == PostLoop(day, form, date, db = "up", 1,
                                 [rows |-> <<>>, failed |-> FALSE])
            IN  /\ Len(logs) + Len(done.rows) <= MaxLogs
                /\ logs' = logs \o done.rows
                /\ resp' = [op |-> "weekly_post", status |-> 302,
                            location |-> "weekly", day |-> day,
                            appended |-> Len(done.rows),
                            storeFailed |-> done.failed]
    /\ UNCHANGED today

WeeklyGet(day, dbOk) ==
    /\ resp.op = "idle"
    /\ IF day \notin DOMAIN WORKOUT_PLAN
       THEN resp' = Redirect("weekly", "index")
       ELSE IF ~dbOk
       THEN resp' = StoreFailure("weekly")
       ELSE LET week_number == get_training_week
                exs == Range(WORKOUT_PLAN[day])
            IN  \E last \in {f \in [exs -> UNION {last_set_for_exercise(e) : e \in exs}] :
                                \A e \in exs : f[e] \in last_set_for_exercise(e)} :
                    LET recommendations ==
                            [e \in exs |-> get_next_progression(week_number, last[e])]
                    IN  IF \E e \in exs : recommendations[e].raised # ""
                        THEN resp' = [op |-> "weekly", status |-> 500,
                                      error |-> "OverflowError", day |-> day,
                                      week_number |-> week_number]
                        ELSE resp' = [op |-> "weekly", status |-> 200, error |-> "",
                                      day |-> day, week_number |-> week_number,
                                      recommendations |-> recommendations]
    /\ UNCHANGED <<logs, today>>

History(exercise, dbOk) ==
    /\ resp.op = "idle"
    /\ IF ~dbOk
       THEN resp' = StoreFailure("history")
       ELSE \E rows \in fetch_exercise_history(exercise) :
                resp' = [op |-> "history", status |-> 200,
                         exercise |-> exercise, logs |-> rows]
    /\ UNCHANGED <<logs, today>>

\* present: whether the query string carries ?exercise=
Dashboard(present, arg) ==
    /\ resp.op = "idle"
    /\ LET exercises == list_all_exercises
           selected == IF present THEN arg
                       ELSE IF exercises # <<>> THEN exercises[1] ELSE ""
       IN  resp' = [op |-> "dashboard", status |-> 200,
                    exercises |-> exercises, selected |-> selected]
    /\ UNCHANGED <<logs, today>>

\* exercise = "": the query string carries no exercise, or an empty one
Chart(kind, exercise, dbOk) ==
    /\ resp.op = "idle"
    /\ IF exercise = ""
       THEN resp' = [op |-> "chart", kind |-> kind, exercise |-> exercise,
                     status |-> 404, figure |-> chart(kind, exercise, <<>>)]
       ELSE IF ~dbOk
       THEN resp' = StoreFailure("chart")
       ELSE \E rows \in fetch_exercise_history(exercise) :
                resp' = [op |-> "chart", kind |-> kind, exercise |-> exercise,
                         status |-> 200, figure |-> chart(kind, exercise, rows)]
    /\ UNCHANGED <<logs, today>>

Deliver ==
    /\ resp.op # "idle"
    /\ resp' = Idle
    /\ UNCHANGED <<logs, today>>

\* the wall clock moves on
Tick(k) ==
    /\ resp.op = "idle"
    /\ today + k <= strptime(StartDate) + MaxDay
    /\ today' = today + k
    /\ UNCHANGED <<logs, resp>>

RequestKinds == ChartKinds \cup {"bogus"}

Init ==
    /\ logs = <<>>
    /\ today = strptime(StartDate)
    /\ resp = Idle

Next ==
    \/ Index
    \/ \E req \in PostRequests, db \in {"up", "lost"} :
          WeeklyPost(req[1], req[2], db)
    \/ \E day \in RequestDays : WeeklyPost(day, <<>>, "down")
    \/ \E day \in RequestDays, dbOk \in BOOLEAN : WeeklyGet(day, dbOk)
    \/ \E exercise \in RequestExercises, dbOk \in BOOLEAN : History(exercise, dbOk)
    \/ \E present \in BOOLEAN, arg \in {"Face Pulls", ""} : Dashboard(present, arg)
    \/ \E kind \in RequestKinds, exercise \in RequestExercises \cup {""}, dbOk \in BOOLEAN :
          Chart(kind, exercise, dbOk)
    \/ Deliver
    \/ \E k \in DaySteps : Tick(k)

Spec == Init /\ [][Next]_vars

(***************************************************************************)
(* SpecProg: the progression rule over a range of last sets and weeks.     *)
(* The table holds one row of Weighted Dips logged on StartDate, any       *)
(* weight of the grid and any reps, and at most one later-inserted row.    *)
(***************************************************************************)
LogRow(date, day, exercise, s, reps, weight) ==
    [date |-> date, day |-> day, exercise |-> exercise,
     set_number |-> s, reps |-> reps, weight |-> weight]

ProgWeights == {5 * k : k \in 1..MaxGrid} \cup {1200, 2000, Inf}

ProgSecondRows ==
    {LogRow(StartDate, "Push", "Weighted Dips", s, 8, 1200) : s \in 1..3} \cup
    {LogRow(isoformat(strptime(StartDate) + 20), "Push", "Weighted Dips", 1, 8, 1200),
     LogRow(isoformat(strptime(StartDate) + 20), "Pull", "Face Pulls", 3, 10, 900)}

ProgHistories ==
    LET firsts == {LogRow(StartDate, "Push", "Weighted Dips", 2, r, w) :
                      r \in 1..MaxReps, w \in ProgWeights}
    IN  {<<f>> : f \in firsts} \cup {<<f, g>> : f \in firsts, g \in ProgSecondRows}

ProgDays == {20, 35, 41, 42, 77}

InitProg ==
    /\ logs \in ProgHistories
    /\ today \in {strptime(StartDate) + d : d \in ProgDays}
    /\ resp = Idle

NextProg ==
    \/ \E day \in RequestDays, dbOk \in BOOLEAN : WeeklyGet(day, dbOk)
    \/ Deliver

SpecProg == InitProg /\ [][NextProg]_vars

(***************************************************************************)
(* SpecSeries: the chart series over histories of up to MaxSeriesLen rows. *)
(***************************************************************************)
SeriesRows ==
    {LogRow(isoformat(strptime(StartDate) + d), "Push", "Weighted Dips", s, rw[1], rw[2]) :
        d \in {0, 20, 37}, s \in 1..2, rw \in {<<8, 1000>>, <<10, 900>>}} \cup
    {LogRow(isoformat(strptime(StartDate) + 20), "Pull", "Face Pulls", 1, 9, 195)}

\* rows are stamped with the date of their insertion, so dates never decrease
\* along the table
SeriesHistories ==
    UNION {{h \in [1..n -> SeriesRows] :
               \A k \in 1..(n - 1) : ~TextLess(h[k + 1].date, h[k].date)}
           : n \in 0..MaxSeriesLen}

InitSeries ==
    /\ logs \in SeriesHistories
    /\ today = strptime(StartDate) + 37
    /\ resp = Idle

NextSeries ==
    \/ \E kind \in RequestKinds, exercise \in RequestExercises \cup {""}, dbOk \in BOOLEAN :
          Chart(kind, exercise, dbOk)
    \/ Deliver

SpecSeries == InitSeries /\ [][NextSeries]_vars

(***************************************************************************)
(* Properties.  They speak of the response in flight and of the table it   *)
(* was computed from: no other request runs before Deliver.                *)
(***************************************************************************)
Exercises == Range(list_all_exercises)

\* the date of row i as a day count, and its place in the "last set" order
DayOf(i) == strptime(logs[i].date)

NotLater(i, j) ==
    \/ DayOf(i) < DayOf(j)
    \/ DayOf(i) = DayOf(j) /\ logs[i].set_number <= logs[j].set_number

\* rows of the exercise with the greatest date and, in it, the greatest set number
LatestRows(exercise) ==
    {i \in RowsOf(exercise) : \A j \in RowsOf(exercise) : NotLater(j, i)}

\* a GET /weekly/<day> of a plan day that the store answered
ProgressionServed ==
    /\ resp.op = "weekly"
    /\ resp.status \in {200, 500}
    /\ resp.error # "store"

ServedExercises == Range(WORKOUT_PLAN[resp.day])

\* a POST /weekly/<day> of a plan day that ran its loop
PostServed ==
    /\ resp.op = "weekly_post"
    /\ resp.status = 302
    /\ resp.location = "weekly"

\* the rows the POST in flight appended
AppendedRows == (Len(logs) - resp.appended + 1)..Len(logs)

\* the last row the POST in flight appended for the exercise of row i
LastAppendedOf(i) ==
    /\ i \in AppendedRows
    /\ \A j \in AppendedRows : logs[j].exercise = logs[i].exercise => j <= i

NearestDeloads(w) ==
    IF w = Inf THEN {}
    ELSE {m \in 0..(w + 50) : m % 50 = 0 /\ 10 * m - 9 * w \in -250..250}

FloorDeload(m) == IF m < 50 THEN 50 ELSE m

\* C2 (as claimed): in a week that is a multiple of 6, every exercise with
\* history is recommended 6 reps at max(2.5, 0.9 * lastWeight rounded to the
\* nearest multiple of 2.5), lastWeight being the weight of its last set.
C2_DeloadRule ==
    ProgressionServed /\ get_training_week % 6 = 0 =>
        /\ resp.status = 200
        /\ \A e \in ServedExercises :
              RowsOf(e) # {} =>
                  /\ resp.recommendations[e].reps = 6
                  /\ \E i \in LatestRows(e) :
                        \E m \in NearestDeloads(logs[i].weight) :
                            resp.recommendations[e].weight = FloorDeload(m)

\* The deload rule for the last sets whose weight is finite.
DeloadRuleFinite ==
    ProgressionServed /\ get_training_week % 6 = 0 =>
        \A e \in ServedExercises :
            RowsOf(e) # {} /\ (\A i \in RowsOf(e) : logs[i].weight # Inf) =>
                /\ resp.status = 200
                /\ resp.recommendations[e].reps = 6
                /\ \E i \in LatestRows(e) :
                      \E m \in NearestDeloads(logs[i].weight) :
                          resp.recommendations[e].weight = FloorDeload(m)

\* C3 (as claimed): in a week that is not a multiple of 6, an exercise whose
\* last set is (lastReps, lastWeight) is recommended (lastWeight, lastReps + 1)
\* when lastReps < 10 and (lastWeight + 2.5, 6) when lastReps >= 10.
C3_ProgressionUnrounded ==
    ProgressionServed /\ get_training_week % 6 # 0 =>
        /\ resp.status = 200
        /\ \A e \in ServedExercises :
              RowsOf(e) # {} =>
                  \E i \in LatestRows(e) :
                      resp.recommendations[e] =
                          IF logs[i].reps < 10
                          THEN Recommendation(logs[i].weight, logs[i].reps + 1)
                          ELSE Recommendation(FloatAdd(logs[i].weight, 50), 6)

\* x is a multiple of 0.1 kg nearest to v, the even tenth when two are
TenthNearest(x, v) ==
    IF v = Inf THEN x = Inf
    ELSE /\ x % 2 = 0
         /\ x - v \in -1..1
         /\ (x # v /\ v % 2 = 1) => (x \div 2) % 2 = 0

\* C3 (amended): in a week that is not a multiple of 6, an exercise whose
\* last set is (lastReps, lastWeight) is recommended (lastWeight, lastReps + 1)
\* when lastReps < 10 and (lastWeight + 2.5 rounded to one decimal, 6) when
\* lastReps >= 10.
C3_ProgressionRounded ==
    ProgressionServed /\ get_training_week % 6 # 0 =>
        /\ resp.status = 200
        /\ \A e \in ServedExercises :
              RowsOf(e) # {} =>
                  \E i \in LatestRows(e) :
                      IF logs[i].reps < 10
                      THEN resp.recommendations[e] =
                               Recommendation(logs[i].weight, logs[i].reps + 1)
                      ELSE /\ resp.recommendations[e].reps = 6
                           /\ resp.recommendations[e].raised = ""
                           /\ TenthNearest(resp.recommendations[e].weight,
                                           FloatAdd(logs[i].weight, 50))

C3_Witness ==
    /\ ProgressionServed
    /\ resp.status = 200
    /\ resp.day = "Push"
    /\ get_training_week % 6 # 0
    /\ Len(logs) = 2
    /\ LatestRows("Weighted Dips") = {1}
    /\ logs[1].reps >= 10
    /\ logs[1].weight = 105
    /\ resp.recommendations["Weighted Dips"].weight = 156

\* C4: an exercise with no logged set is recommended exactly (20.0, 6), in
\* every week, deload weeks included, whatever is logged for other exercises.
C4_ColdStart ==
    \A e \in Exercises :
        RowsOf(e) = {} =>
            /\ \A last \in last_set_for_exercise(e) :
                  get_next_progression(get_training_week, last) = Recommendation(400, 6)
            /\ ProgressionServed /\ e \in ServedExercises =>
                  /\ resp.status = 200
                  /\ resp.recommendations[e] = Recommendation(400, 6)

C4_Witness ==
    /\ ProgressionServed
    /\ resp.status = 200
    /\ resp.day = "Pull"
    /\ RowsOf("Face Pulls") = {}
    /\ Len(logs) = 2
    /\ get_training_week % 6 = 0

\* the whole days from the earliest logged date to today
DaysSinceFirst ==
    today - (CHOOSE d \in {DayOf(i) : i \in DOMAIN logs} :
                \A i \in DOMAIN logs : d <= DayOf(i))

\* C5: the training week is 1 on an empty table and floor(d / 7) + 1
\* otherwise, d the whole days from the earliest logged date of any exercise
\* to today; it is at least 1, and it is the week number the weekly page shows.
C5_TrainingWeek ==
    /\ get_training_week >= 1
    /\ logs = <<>> => get_training_week = 1
    /\ logs # <<>> =>
          /\ 7 * (get_training_week - 1) <= DaysSinceFirst
          /\ DaysSinceFirst < 7 * get_training_week
    /\ ProgressionServed => resp.week_number = get_training_week

C5_Witness ==
    /\ ProgressionServed
    /\ Len(logs) = 2
    /\ logs[1].exercise # logs[2].exercise
    /\ DayOf(2) - DayOf(1) = 41
    /\ today = DayOf(2)
    /\ resp.week_number = 6

\* the rows of the charted exercise logged on the date with day count d
SessionRows(d) == {i \in RowsOf(resp.exercise) : DayOf(i) = d}

RECURSIVE VolumeOf(_)
VolumeOf(I) ==
    IF I = {} THEN 0
    ELSE LET i == CHOOSE k \in I : TRUE
         IN  logs[i].weight * logs[i].reps + VolumeOf(I \ {i})

\* v is the value of the metric over the rows I
MetricIs(kind, I, v) ==
    IF kind = "volume" THEN v = VolumeOf(I)
    ELSE LET val(i) == IF kind = "top_weight" THEN logs[i].weight
                       ELSE logs[i].weight * (30 + logs[i].reps)
         IN  /\ \E i \in I : val(i) = v
             /\ \A i \in I : val(i) <= v

\* C6: for a valid metric, the series of an exercise with history has exactly
\* one point per distinct date of that history, in strictly ascending date
\* order, each computed from exactly the sets logged for the exercise on
\* that date.
C6_SeriesShape ==
    /\ resp.op = "chart"
    /\ resp.status = 200
    /\ resp.kind \in ChartKinds
    /\ RowsOf(resp.exercise) # {}
    => LET x == resp.figure.x
           y == resp.figure.y
       IN  /\ Len(x) = Cardinality({logs[i].date : i \in RowsOf(resp.exercise)})
           /\ Len(y) = Len(x)
           /\ \A k \in 1..(Len(x) - 1) : x[k] < x[k + 1]
           /\ \A k \in 1..Len(x) :
                 /\ SessionRows(x[k]) # {}
                 /\ MetricIs(resp.kind, SessionRows(x[k]), y[k])

C6_Witness ==
    /\ resp.op = "chart"
    /\ resp.status = 200
    /\ resp.kind = "volume"
    /\ resp.exercise = "Weighted Dips"
    /\ Len(logs) = 3
    /\ Len(resp.figure.x) = 2
    /\ resp.figure.y = <<17000, 8000>>

\* C7 (as claimed): a POST during which a store call failed does not
\* complete as a redirect; the failure reaches the client.
C7_StoreFailureSurfaced ==
    PostServed => ~resp.storeFailed

\* C8 (as claimed): a chart request that names an exercise and a kind other
\* than top_weight, volume, e1rm gets the unknown-metric figure, whatever the
\* history of the exercise, the empty history included.
C8_UnknownMetricSignalled ==
    /\ resp.op = "chart"
    /\ resp.status = 200
    /\ resp.kind \notin ChartKinds
    => resp.figure.title = "Unknown chart"

\* C9 (as claimed): after any sequence of submissions and in every week, every
\* exercise is recommended a weight > 0, and a weight >= 2.5 in a week that
\* is a multiple of 6 when the exercise has history.
C9_PositiveWeight ==
    ProgressionServed =>
        /\ resp.status = 200
        /\ \A e \in ServedExercises :
              /\ resp.recommendations[e].weight > 0
              /\ (get_training_week % 6 = 0 /\ RowsOf(e) # {}) =>
                    resp.recommendations[e].weight >= 50

\* Every stored row has reps > 0 and weight > 0.
StoredRowsPositive ==
    \A i \in DOMAIN logs : logs[i].reps > 0 /\ logs[i].weight > 0

\* C10 (as claimed): in a week that is a multiple of 6, the weight recommended
\* for an exercise with history is not greater than the weight of its last
\* set, for every stored weight.
C10_DeloadReduces ==
    ProgressionServed /\ resp.status = 200 /\ get_training_week % 6 = 0 =>
        \A e \in ServedExercises :
            RowsOf(e) # {} =>
                \E i \in LatestRows(e) : resp.recommendations[e].weight <= logs[i].weight

\* C10 (amended): in a week that is a multiple of 6, the weight recommended
\* for an exercise with history is not greater than the weight of its last
\* set whenever that weight is at least 12.5 or a multiple of 2.5, and is
\* always less than that weight plus 2.5.
C10_DeloadReducesFrom12_5 ==
    ProgressionServed /\ resp.status = 200 /\ get_training_week % 6 = 0 =>
        \A e \in ServedExercises :
            RowsOf(e) # {} =>
                \E i \in LatestRows(e) :
                    /\ resp.recommendations[e].weight < logs[i].weight + 50
                    /\ (logs[i].weight >= 250 \/ logs[i].weight % 50 = 0) =>
                          resp.recommendations[e].weight <= logs[i].weight

C10_Witness ==
    /\ ProgressionServed
    /\ resp.status = 200
    /\ resp.day = "Push"
    /\ get_training_week % 6 = 0
    /\ Len(logs) = 1
    /\ logs[1].weight = 255
    /\ resp.recommendations["Weighted Dips"].weight = 250

====
